---- MODULE Spec2Model ----
(***************************************************************************)
(* A model of picoCTF-web/api/api/problem.py: the problem store, the       *)
(* submission store, the unlock evaluation and the submission pipeline.    *)
(*                                                                         *)
(* The two MongoDB collections are bags of documents (a document's _id     *)
(* makes equal documents distinct, and every query projects it away).  A   *)
(* document is a function from the field names it has to their values, so  *)
(* an absent field is absent from its DOMAIN.                              *)
(***************************************************************************)
EXTENDS Integers, FiniteSets, Sequences, Bags, TLC

VARIABLES problems, submissions, graders, ret, procs

vars == <<problems, submissions, graders, ret, procs>>

----------------------------------------------------------------------------
(* Bounds of the model and the finite input sets.                          *)

MaxProblems == 3

MaxSubs == 2

MaxStrLen == 100

Names == {"A", "B", "C"}

Tids == {"t1", "t2"}

Users == {"u1"}

LongKey == "k123456789k123456789k123456789k123456789k123456789k123456789k123456789k123456789k123456789k123456789X"

Keys == {"k1", "k2"}

GraderPaths == {"g1.py"}

GraderStates == Keys \cup {"missing"}

Categories == {"c1", "c2"}

None == "None"

OrNone(S) == S \cup {None}

Procs == {"p1", "p2"}

----------------------------------------------------------------------------
(* api.common.hash: a deterministic, collision-resistant digest of the     *)
(* problem name.                                                           *)

hash(name) == "pid_" \o name

Pids == {hash(n) : n \in Names}

(* api.user.get_user(uid=uid): the user record; the empty set is None.     *)
get_user(uid) == IF uid \in Users THEN {[uid |-> uid]} ELSE {}

----------------------------------------------------------------------------
(* Generic helpers: lists out of bags, sums, MongoDB's query matching.     *)

RECURSIVE BagToSeq(_)
BagToSeq(B) ==
    IF BagToSet(B) = {} THEN <<>>
    ELSE LET d == CHOOSE x \in BagToSet(B) : TRUE
         IN  <<d>> \o BagToSeq(B (-) SetToBag({d}))

RECURSIVE SeqToBag(_)
SeqToBag(s) ==
    IF s = <<>> THEN EmptyBag ELSE SetToBag({Head(s)}) (+) SeqToBag(Tail(s))

(* The orders in which a cursor may hand out the documents of a find.     *)
Orders(B) ==
    {s \in [1..BagCardinality(B) -> BagToSet(B)] : SeqToBag(s) = B}

(* The store with f applied to every document, copies kept.                *)
MapBag(f(_), B) ==
    LET s == BagToSeq(B) IN SeqToBag([i \in 1..Len(s) |-> f(s[i])])

RECURSIVE SumSeq(_)
SumSeq(s) == IF s = <<>> THEN 0 ELSE Head(s) + SumSeq(Tail(s))

Range(s) == {s[i] : i \in 1..Len(s)}

(* A MongoDB equality query: every queried field is present and equal.     *)
Matches(doc, match) ==
    \A f \in DOMAIN match : f \in DOMAIN doc /\ doc[f] = match[f]

(* collection.find(match): the matching documents, with multiplicity.      *)
Find(coll, match) ==
    LET hit == {d \in BagToSet(coll) : Matches(d, match)}
    IN  [d \in hit |-> coll[d]]

(* collection.remove(match): every matching document is deleted.           *)
Remove(coll, match) == coll (-) Find(coll, match)

(* list.sort('score', ASCENDING) of get_all_problems, by insertion.        *)
RECURSIVE InsertByScore(_, _)
InsertByScore(d, s) ==
    IF s = <<>> THEN <<d>>
    ELSE IF d.score <= Head(s).score THEN <<d>> \o s
    ELSE <<Head(s)>> \o InsertByScore(d, Tail(s))

RECURSIVE SortByScore(_)
SortByScore(s) ==
    IF s = <<>> THEN <<>> ELSE InsertByScore(Head(s), SortByScore(Tail(s)))

----------------------------------------------------------------------------
(* Validation schemas.                                                     *)

SubmissionSchemaOk(tid, pid, key) ==
    /\ Len(tid) <= MaxStrLen
    /\ Len(pid) <= MaxStrLen
    /\ Len(key) <= MaxStrLen

ProblemRequired ==
    {"name", "score", "category", "grader", "description", "threshold"}

ProblemOptional ==
    {"disabled", "autogen", "related_problems", "pid", "weightmap", "tags",
     "hint", "_id"}

(* validate(problem_schema, problem): the required keys are there, no key  *)
(* is unknown, score and threshold are >= 0, disabled is a bool, and the   *)
(* checks of "pid" and "_id" (lambda _: False) reject any value.           *)
ProblemSchemaOk(problem) ==
    /\ ProblemRequired \subseteq DOMAIN problem
    /\ DOMAIN problem \subseteq ProblemRequired \cup ProblemOptional
    /\ problem.score >= 0
    /\ problem.threshold >= 0
    /\ "disabled" \in DOMAIN problem => problem.disabled \in BOOLEAN
    /\ "pid" \notin DOMAIN problem
    /\ "_id" \notin DOMAIN problem

----------------------------------------------------------------------------
(* Queries.  P is the problems collection, S the submissions collection.   *)

(* get_problem(pid=, name=, show_disabled=): the documents find_one may    *)
(* return; the empty set stands for SevereInternalException.               *)
get_problem(P, pid, name, show_disabled) ==
    LET match == IF pid # None
                 THEN [disabled |-> show_disabled, pid |-> pid]
                 ELSE [disabled |-> show_disabled, name |-> name]
    IN  BagToSet(Find(P, match))

get_all_problems(P, category, show_disabled) ==
    LET match == IF category # None
                 THEN [disabled |-> show_disabled, category |-> category]
                 ELSE [disabled |-> show_disabled]
    IN  SortByScore(BagToSeq(Find(P, match)))

get_submissions(S, pid, uid, tid, category) ==
    LET who == IF uid # None THEN [uid |-> uid]
               ELSE IF tid # None THEN [tid |-> tid] ELSE <<>>
        what == IF pid # None THEN [pid |-> pid] ELSE <<>>
        cat == IF category # None THEN [category |-> category] ELSE <<>>
    IN  BagToSeq(Find(S, who @@ what @@ cat))

get_solved_pids(S, tid, category) ==
    LET subs == get_submissions(S, None, None, tid, category)
        good == SelectSeq(subs, LAMBDA sub : sub.correct = TRUE)
    IN  [i \in 1..Len(good) |-> good[i].pid]

(* get_solved_problems: [get_problem(pid) for pid in solved pids]; ok is   *)
(* FALSE when one get_problem raises.  Callers read only 'pid' of each     *)
(* element, which every document find_one can return for that pid shares.  *)
get_solved_problems(P, S, tid, category) ==
    LET pids == get_solved_pids(S, tid, category)
    IN  IF \E i \in 1..Len(pids) : get_problem(P, pids[i], None, FALSE) = {}
        THEN [ok |-> FALSE, val |-> <<>>]
        ELSE [ok |-> TRUE,
              val |-> [i \in 1..Len(pids) |->
                         CHOOSE d \in get_problem(P, pids[i], None, FALSE) : TRUE]]

(* Every weight of the weightmap counted, solved or not.                   *)
weightsum_all(problem, solved) ==
    LET wm == problem.weightmap
        s == BagToSeq(SetToBag(DOMAIN wm))
    IN  SumSeq([i \in 1..Len(s) |-> wm[s[i]]])

weightsum(problem, solved) ==
    SumSeq([i \in 1..Len(solved) |->
              IF solved[i].pid \in DOMAIN problem.weightmap
              THEN problem.weightmap[solved[i].pid] ELSE 0])

get_unlocked_pids(P, S, tid, category) ==
    LET solved == get_solved_problems(P, S, tid, category)
        all == get_all_problems(P, None, FALSE)
        open == SelectSeq(all, LAMBDA problem :
                    \/ "weightmap" \notin DOMAIN problem
                    \/ "threshold" \notin DOMAIN problem
                    \/ weightsum(problem, solved.val) >= problem.threshold)
    IN  IF ~solved.ok THEN [ok |-> FALSE, val |-> <<>>]
        ELSE [ok |-> TRUE, val |-> [i \in 1..Len(open) |-> open[i].pid]]

----------------------------------------------------------------------------
(* The problem payloads handed to insert_problem.                          *)

Base(name, category, threshold) ==
    [name |-> name, score |-> 10, category |-> category, grader |-> "g1.py",
     description |-> "d", threshold |-> threshold]

(* A: no prerequisites, threshold 0, neither weightmap nor disabled given. *)
PA == Base("A", "c1", 0)

(* A again, inserted disabled, with an empty weightmap.                    *)
PAd == Base("A", "c1", 0) @@ [disabled |-> TRUE, weightmap |-> <<>>]

(* A with a positive threshold and no weightmap.                           *)
PA1 == Base("A", "c1", 1)

(* B: unlocked by A alone, weight equal to the threshold.                  *)
PB == Base("B", "c2", 1) @@ [disabled |-> FALSE, weightmap |-> [n \in {"A"} |-> 1]]

(* C: needs A and B; one of them gives threshold - 1.                      *)
PC == Base("C", "c1", 2) @@ [weightmap |-> [n \in {"A", "B"} |-> 1]]

(* Payloads the schema rejects: a negative score, a client-supplied pid.   *)
PNeg == [Base("B", "c2", 0) EXCEPT !.score = -1]

PWithPid == Base("C", "c1", 0) @@ [pid |-> "pid_C"]

Payloads == {PA, PAd, PA1, PB, PC, PNeg, PWithPid}

UpdateInputs == {[threshold |-> 0], [score |-> 5]}

(* submit_key's arguments <<tid, pid, key, uid>>: every team, problem and  *)
(* valid key by the known user, plus an over-long key and an unknown user. *)
SubmitInputs ==
    (Tids \X Pids \X Keys \X Users)
      \cup {<<"t1", hash("A"), LongKey, "u1">>}
      \cup (Tids \X {hash("A")} \X {"k1"} \X {"nobody"})

(* invalidate_submissions' arguments <<pid, uid, tid>>: no filter, a tid,  *)
(* a pid, both, and the uid filter (which takes precedence over tid).      *)
InvalidateInputs ==
    ({None} \X {None} \X OrNone(Tids))
      \cup {<<hash("A"), None, None>>, <<hash("B"), None, "t1">>,
            <<None, "u1", "t2">>, <<hash("A"), "u1", None>>}

----------------------------------------------------------------------------
(* Problem lifecycle.  Each returns the outcomes the call can have: the    *)
(* status (ok, or the exception raised), the collection afterwards and the *)
(* value returned.                                                         *)

(* The weightmap loop of insert_problem: keys rehashed from name to pid.   *)
rehash_weightmap(problem) ==
    IF "weightmap" \in DOMAIN problem /\ DOMAIN problem.weightmap # {}
    THEN LET wm == problem.weightmap
         IN  [h \in {hash(n) : n \in DOMAIN wm} |->
                wm[CHOOSE n \in DOMAIN wm : hash(n) = h]]
    ELSE <<>>

(* The document insert_problem builds from a validated payload.            *)
insert_doc(problem) ==
    [disabled |-> IF "disabled" \in DOMAIN problem THEN problem.disabled ELSE FALSE,
     pid |-> hash(problem.name),
     weightmap |-> rehash_weightmap(problem)] @@ problem

insert_problem(P, problem) ==
    IF ~ProblemSchemaOk(problem)
    THEN [status |-> "validation", P |-> P, val |-> None]
    ELSE LET doc == insert_doc(problem)
         IN  IF get_problem(P, doc.pid, None, FALSE) # {}
             THEN [status |-> "pid_exists", P |-> P, val |-> None]
             ELSE IF get_problem(P, None, doc.name, FALSE) # {}
             THEN [status |-> "name_exists", P |-> P, val |-> None]
             ELSE [status |-> "ok", P |-> P (+) SetToBag({doc}), val |-> doc.pid]

remove_problem(P, pid) ==
    IF get_problem(P, pid, None, FALSE) = {}
    THEN [status |-> "notfound", P |-> P]
    ELSE [status |-> "ok", P |-> Remove(P, [pid |-> pid])]

(* update_problem: the record read by get_problem carries 'pid' (and       *)
(* 'disabled', 'weightmap'); the merged record is validated against the    *)
(* full schema, then replaces one document matching {"pid": pid}.          *)
update_problem(P, pid, updated_problem) ==
    IF get_problem(P, pid, None, FALSE) = {}
    THEN {[status |-> "notfound", P |-> P]}
    ELSE UNION {
           LET merged == updated_problem @@ problem
           IN  IF ~ProblemSchemaOk(merged)
               THEN {[status |-> "validation", P |-> P]}
               ELSE {[status |-> "ok",
                      P |-> (P (-) SetToBag({d})) (+) SetToBag({merged}),
                      val |-> merged]
                     : d \in BagToSet(Find(P, [pid |-> pid]))}
           : problem \in get_problem(P, pid, None, FALSE)}

set_problem_disabled(P, pid, disabled) ==
    update_problem(P, pid, [disabled |-> disabled])

----------------------------------------------------------------------------
(* Grading and the submission pipeline.  G maps a grader path to the key   *)
(* its grade() accepts, or to "missing" when the file is not there.        *)

(* A grader that cannot be loaded taken for a wrong answer.                *)
grade_problem_conflated(P, G, pid, key, uid) ==
    IF get_problem(P, pid, None, FALSE) = {}
    THEN {[status |-> "notfound"]}
    ELSE {[status |-> "ok",
           correct |-> (key = G[problem.grader]),
           points |-> problem.score,
           message |-> IF key = G[problem.grader] THEN "Correct!" ELSE "Wrong"]
          : problem \in get_problem(P, pid, None, FALSE)}

grade_problem(P, G, pid, key, uid) ==
    IF get_problem(P, pid, None, FALSE) = {}
    THEN {[status |-> "notfound"]}
    ELSE {IF G[problem.grader] = "missing"
          THEN [status |-> "offline"]
          ELSE [status |-> "ok",
                correct |-> (key = G[problem.grader]),
                points |-> problem.score,
                message |-> IF key = G[problem.grader] THEN "Correct!" ELSE "Wrong"]
          : problem \in get_problem(P, pid, None, FALSE)}

(* The unlock gate left out.                                               *)
UnlockGateOff(P, S, tid, pid) == "ok"

(* if pid not in get_unlocked_pids(tid): raise InternalException           *)
UnlockGate(P, S, tid, pid) ==
    LET unlocked == get_unlocked_pids(P, S, tid, None)
    IN  IF ~unlocked.ok THEN "notfound"
        ELSE IF pid \notin Range(unlocked.val) THEN "locked"
        ELSE "ok"

(* The already-solved gate left out.                                       *)
SolvedGateOff(S, tid, pid) == "ok"

(* if pid in get_solved_pids(tid): raise WebException                      *)
SolvedGate(S, tid, pid) ==
    IF pid \in Range(get_solved_pids(S, tid, None)) THEN "solved" ELSE "ok"

(* The duplicate check left out.                                           *)
DuplicateGateOff(S, tid, pid, key) == "ok"

(* if (key, pid) in [(s["key"], s["pid"]) for s in get_submissions(tid)]   *)
DuplicateGate(S, tid, pid, key) ==
    LET subs == get_submissions(S, None, None, tid, None)
    IN  IF <<key, pid>> \in {<<subs[i].key, subs[i].pid>> : i \in 1..Len(subs)}
        THEN "duplicate" ELSE "ok"

(* The record without the denormalized category.                           *)
new_submission_uncategorized(uid, tid, pid, key, problem, result) ==
    [uid |-> uid, tid |-> tid, pid |-> pid, ip |-> None, key |-> key,
     category |-> None, correct |-> result.correct]

(* The record submit_key builds (timestamp left out: nothing reads it;     *)
(* ip is the default None).                                                *)
new_submission(uid, tid, pid, key, problem, result) ==
    [uid |-> uid, tid |-> tid, pid |-> pid, ip |-> None, key |-> key,
     category |-> problem.category, correct |-> result.correct]

Rejected(status, S) == [status |-> status, S |-> S]

submit_key(P, S, G, tid, pid, key, uid) ==
    IF ~SubmissionSchemaOk(tid, pid, key) THEN {Rejected("validation", S)}
    ELSE LET unlock == UnlockGate(P, S, tid, pid) IN
    IF unlock # "ok" THEN {Rejected(unlock, S)}
    ELSE IF SolvedGate(S, tid, pid) # "ok" THEN {Rejected("solved", S)}
    ELSE IF get_user(uid) = {} THEN {Rejected("nouser", S)}
    ELSE UNION {
           IF result.status # "ok" THEN {Rejected(result.status, S)}
           ELSE IF get_problem(P, pid, None, FALSE) = {}
           THEN {Rejected("notfound", S)}
           ELSE IF DuplicateGate(S, tid, pid, key) # "ok"
           THEN {Rejected("duplicate", S)}
           ELSE {[status |-> "ok",
                  S |-> S (+) SetToBag({new_submission(uid, tid, pid, key,
                                                        problem, result)}),
                  result |-> result]
                 : problem \in get_problem(P, pid, None, FALSE)}
           : result \in grade_problem(P, G, pid, key, uid)}

----------------------------------------------------------------------------
(* Bulk operations on submissions.                                         *)

clear_submissions(S, uid, tid) ==
    IF uid # None THEN [status |-> "ok", S |-> Remove(S, [uid |-> uid])]
    ELSE IF tid # None THEN [status |-> "ok", S |-> Remove(S, [tid |-> tid])]
    ELSE [status |-> "no_filter", S |-> S]

(* invalidate_submissions: collection.update(match, {"correct": False})    *)
(* has no update operator and no multi flag, so MongoDB replaces one       *)
(* matching document by {"correct": False} (under the same _id).           *)
invalidate_submissions(S, pid, uid, tid) ==
    LET what == IF pid # None THEN [pid |-> pid] ELSE <<>>
        who == IF uid # None THEN [uid |-> uid]
               ELSE IF tid # None THEN [tid |-> tid] ELSE <<>>
        hit == BagToSet(Find(S, what @@ who))
    IN  IF hit = {} THEN {S}
        ELSE {(S (-) SetToBag({d})) (+) SetToBag({[correct |-> FALSE]}) : d \in hit}

(* reevaluate_submissions_for_problem: the first loop grades each distinct *)
(* key once and compares the outcome with the correct flag of the          *)
(* submission that introduced the key; the list order is the store's, so   *)
(* any submission with that key may be that one.  The second loop calls    *)
(* update({"key": key}, {"correct": change}, multi=True): a multi update   *)
(* whose document has no update operator is refused by MongoDB, so no      *)
(* document changes and the call ends in OperationFailure.                 *)
reevaluate_keys(S, pid) ==
    LET subs == get_submissions(S, pid, None, None, None)
    IN  {subs[i].key : i \in 1..Len(subs)}

(* The flags 'correct' a submission of pid with this key may carry.        *)
reevaluate_flags(S, pid, key) ==
    LET subs == get_submissions(S, pid, None, None, None)
    IN  {subs[i].correct : i \in {j \in 1..Len(subs) : subs[j].key = key}}

(* The call as it would go if the store took the multi update: every      *)
(* document with a changed key, of any problem, replaced by the update     *)
(* document.                                                               *)
reevaluate_unrefused(P, S, G, pid) ==
    LET keys == reevaluate_keys(S, pid)
        graded(key) == grade_problem(P, G, pid, key, None)
        changed == {k \in keys : \E r \in graded(k) :
                       r.status = "ok" /\ reevaluate_flags(S, pid, k) # {r.correct}}
        new(d) == IF "key" \in DOMAIN d /\ d.key \in changed
                  THEN [correct |-> \E r \in graded(d.key) : r.correct]
                  ELSE d
    IN  IF get_problem(P, pid, None, FALSE) = {}
        THEN {[status |-> "notfound", S |-> S]}
        ELSE IF \E key \in keys : \E r \in graded(key) : r.status # "ok"
        THEN {[status |-> "offline", S |-> S]}
        ELSE {[status |-> "ok", S |-> MapBag(new, S)]}

reevaluate_submissions_for_problem(P, S, G, pid) ==
    LET keys == reevaluate_keys(S, pid)
        graded(key) == grade_problem(P, G, pid, key, None)
    IN  IF get_problem(P, pid, None, FALSE) = {}
        THEN {[status |-> "notfound", S |-> S]}
        ELSE IF \E key \in keys : \E r \in graded(key) : r.status # "ok"
        THEN {[status |-> "offline", S |-> S]}
        ELSE {[status |-> "opfail", S |-> S] :
                x \in {1 : key \in {k \in keys : \E r \in graded(k) :
                          reevaluate_flags(S, pid, k) # {r.correct}}}}
             \cup
             {[status |-> "ok", S |-> S] :
                x \in IF \A key \in keys : \E r \in graded(key) :
                            r.correct \in reevaluate_flags(S, pid, key)
                      THEN {1} ELSE {}}

----------------------------------------------------------------------------
(* The state machine: one action per public operation, each the whole      *)
(* call.  ret records the last call: its name, its arguments and how it    *)
(* ended.                                                                  *)

Call(op, args, status) == [op |-> op, status |-> status]

IdleProc == [pc |-> "idle"]

Init ==
    /\ problems = EmptyBag
    /\ submissions = EmptyBag
    /\ graders = [g \in GraderPaths |-> "k1"]
    /\ ret = Call("init", <<>>, "ok")
    /\ procs = [p \in Procs |-> IdleProc]

InsertProblem(problem) ==
    LET out == insert_problem(problems, problem)
    IN  /\ BagCardinality(out.P) <= MaxProblems
        /\ problems' = out.P
        /\ ret' = Call("insert_problem", <<problem>>, out.status)
        /\ UNCHANGED <<submissions, graders, procs>>

RemoveProblem(pid) ==
    LET out == remove_problem(problems, pid)
    IN  /\ problems' = out.P
        /\ ret' = Call("remove_problem", <<pid>>, out.status)
        /\ UNCHANGED <<submissions, graders, procs>>

UpdateProblem(pid, updated_problem) ==
    \E out \in update_problem(problems, pid, updated_problem) :
        /\ problems' = out.P
        /\ ret' = Call("update_problem", <<pid, updated_problem>>, out.status)
        /\ UNCHANGED <<submissions, graders, procs>>

SetProblemDisabled(pid, disabled) ==
    \E out \in set_problem_disabled(problems, pid, disabled) :
        /\ problems' = out.P
        /\ ret' = Call("set_problem_disabled", <<pid, disabled>>, out.status)
        /\ UNCHANGED <<submissions, graders, procs>>

SubmitKey(tid, pid, key, uid) ==
    \E out \in submit_key(problems, submissions, graders, tid, pid, key, uid) :
        /\ BagCardinality(out.S) <= MaxSubs
        /\ submissions' = out.S
        /\ ret' = Call("submit_key", <<tid, pid, key, uid>>, out.status)
        /\ UNCHANGED <<problems, graders, procs>>

ClearAllSubmissions ==
    /\ submissions' = EmptyBag
    /\ ret' = Call("clear_all_submissions", <<>>, "ok")
    /\ UNCHANGED <<problems, graders, procs>>

ClearSubmissions(uid, tid) ==
    LET out == clear_submissions(submissions, uid, tid)
    IN  /\ submissions' = out.S
        /\ ret' = Call("clear_submissions", <<uid, tid>>, out.status)
        /\ UNCHANGED <<problems, graders, procs>>

InvalidateSubmissions(pid, uid, tid) ==
    \E S \in invalidate_submissions(submissions, pid, uid, tid) :
        /\ submissions' = S
        /\ ret' = Call("invalidate_submissions", <<pid, uid, tid>>, "ok")
        /\ UNCHANGED <<problems, graders, procs>>

ReevaluateSubmissions(pid) ==
    \E out \in reevaluate_submissions_for_problem(problems, submissions,
                                                  graders, pid) :
        /\ submissions' = out.S
        /\ ret' = Call("reevaluate_submissions_for_problem", <<pid>>, out.status)
        /\ UNCHANGED <<problems, graders, procs>>

(* The grader file is edited, removed or restored outside the module.      *)
SetGrader(g, s) ==
    /\ graders[g] # s
    /\ graders' = [graders EXCEPT ![g] = s]
    /\ UNCHANGED <<problems, submissions, ret, procs>>

Next ==
    \/ \E problem \in Payloads : InsertProblem(problem)
    \/ \E pid \in Pids : RemoveProblem(pid)
    \/ \E pid \in Pids, u \in UpdateInputs : UpdateProblem(pid, u)
    \/ \E pid \in Pids, d \in BOOLEAN : SetProblemDisabled(pid, d)
    \/ \E a \in SubmitInputs : SubmitKey(a[1], a[2], a[3], a[4])
    \/ ClearAllSubmissions
    \/ \E uid \in OrNone(Users), tid \in OrNone(Tids) : ClearSubmissions(uid, tid)
    \/ \E a \in InvalidateInputs : InvalidateSubmissions(a[1], a[2], a[3])
    \/ \E pid \in Pids : ReevaluateSubmissions(pid)
    \/ \E g \in GraderPaths, s \in GraderStates : SetGrader(g, s)

Spec == Init /\ [][Next]_vars

----------------------------------------------------------------------------
(* Concurrent requests.  Each process runs one submit_key call; a step is  *)
(* one statement of submit_key that reads or writes the store, so the      *)
(* reads and inserts of two calls interleave in every order.  The problem  *)
(* store holds A and B, inserted beforehand.                               *)

Args(tid, pid, key, uid) == [tid |-> tid, pid |-> pid, key |-> key, uid |-> uid]

Done(proc, status) ==
    [pc |-> "done", tid |-> proc.tid, pid |-> proc.pid, key |-> proc.key,
     status |-> status]

SetProc(p, proc) ==
    /\ procs' = [procs EXCEPT ![p] = proc]
    /\ UNCHANGED <<problems, submissions, graders, ret>>

InitConcurrent ==
    /\ problems = SetToBag({insert_doc(PA), insert_doc(PB)})
    /\ submissions = EmptyBag
    /\ graders = [g \in GraderPaths |-> "k1"]
    /\ ret = Call("init", <<>>, "ok")
    /\ procs = [p \in Procs |-> IdleProc]

(* Entry and validate(submission_schema, ...).                             *)
SubmitBegin(p, tid, pid, key, uid) ==
    /\ procs[p].pc = "idle"
    /\ IF SubmissionSchemaOk(tid, pid, key)
       THEN SetProc(p, [pc |-> "unlock"] @@ Args(tid, pid, key, uid))
       ELSE SetProc(p, Done(Args(tid, pid, key, uid), "validation"))

(* if pid not in get_unlocked_pids(tid)                                    *)
SubmitUnlock(p) ==
    LET proc == procs[p]
        gate == UnlockGate(problems, submissions, proc.tid, proc.pid)
    IN  /\ proc.pc = "unlock"
        /\ IF gate = "ok"
           THEN SetProc(p, [proc EXCEPT !.pc = "solved"])
           ELSE SetProc(p, Done(proc, gate))

(* if pid in get_solved_pids(tid); user = api.user.get_user(uid=uid)       *)
SubmitSolved(p) ==
    LET proc == procs[p]
        gate == SolvedGate(submissions, proc.tid, proc.pid)
    IN  /\ proc.pc = "solved"
        /\ IF gate # "ok" THEN SetProc(p, Done(proc, gate))
           ELSE IF get_user(proc.uid) = {} THEN SetProc(p, Done(proc, "nouser"))
           ELSE SetProc(p, [proc EXCEPT !.pc = "grade"])

(* result = grade_problem(...); problem = get_problem(pid=pid); the        *)
(* submission record is built.                                             *)
SubmitGrade(p) ==
    LET proc == procs[p]
    IN  /\ proc.pc = "grade"
        /\ \E result \in grade_problem(problems, graders, proc.pid, proc.key,
                                       proc.uid) :
              IF result.status # "ok" THEN SetProc(p, Done(proc, result.status))
              ELSE IF get_problem(problems, proc.pid, None, FALSE) = {}
              THEN SetProc(p, Done(proc, "notfound"))
              ELSE \E problem \in get_problem(problems, proc.pid, None, FALSE) :
                      SetProc(p, [pc |-> "check",
                                  submission |-> new_submission(proc.uid,
                                      proc.tid, proc.pid, proc.key, problem,
                                      result)] @@ proc)

(* if (key, pid) in [... for submission in get_submissions(tid=tid)]       *)
SubmitCheck(p) ==
    LET proc == procs[p]
        gate == DuplicateGate(submissions, proc.tid, proc.pid, proc.key)
    IN  /\ proc.pc = "check"
        /\ IF gate = "ok"
           THEN SetProc(p, [proc EXCEPT !.pc = "insert"])
           ELSE SetProc(p, Done(proc, gate))

(* db.submissions.insert(submission); return result                        *)
SubmitInsert(p) ==
    LET proc == procs[p]
    IN  /\ proc.pc = "insert"
        /\ submissions' = submissions (+) SetToBag({proc.submission})
        /\ procs' = [procs EXCEPT ![p] = Done(proc, "ok")]
        /\ UNCHANGED <<problems, graders, ret>>

NextConcurrent ==
    \/ \E p \in Procs, a \in SubmitInputs : SubmitBegin(p, a[1], a[2], a[3], a[4])
    \/ \E p \in Procs : SubmitUnlock(p)
    \/ \E p \in Procs : SubmitSolved(p)
    \/ \E p \in Procs : SubmitGrade(p)
    \/ \E p \in Procs : SubmitCheck(p)
    \/ \E p \in Procs : SubmitInsert(p)

SpecConcurrent == InitConcurrent /\ [][NextConcurrent]_vars

----------------------------------------------------------------------------
(* reevaluate_submissions_for_problem statement by statement.  Every       *)
(* grade_problem call loads the grader file anew, so the file may change   *)
(* or go missing between two keys of one call.  The store holds problem A  *)
(* and one submission by each team, with any flags earlier graders left.   *)

ReevaluateSubs ==
    {SetToBag({new_submission("u1", "t1", hash("A"), "k1", insert_doc(PA),
                              [correct |-> f1]),
               new_submission("u1", "t2", hash("A"), "k2", insert_doc(PA),
                              [correct |-> f2])}) : f1, f2 \in BOOLEAN}

InitReevaluate ==
    /\ problems = SetToBag({insert_doc(PA)})
    /\ submissions \in ReevaluateSubs
    /\ graders \in [GraderPaths -> GraderStates]
    /\ ret = Call("init", <<>>, "ok")
    /\ procs = [p \in Procs |-> IdleProc]

ReevaluateDone(proc, status, failed) ==
    [pc |-> "done", pid |-> proc.pid, keys |-> proc.keys, status |-> status,
     failed |-> failed]

(* problem = get_problem(pid=pid); the list get_submissions(pid=pid) is    *)
(* read once, in the order the store hands it out.                         *)
ReevaluateBegin(p, pid) ==
    /\ procs[p].pc = "idle"
    /\ IF get_problem(problems, pid, None, FALSE) = {}
       THEN SetProc(p, ReevaluateDone([pid |-> pid, keys |-> <<>>],
                                      "notfound", None))
       ELSE \E todo \in Orders(Find(submissions, [pid |-> pid])) :
               SetProc(p, [pc |-> "loop", pid |-> pid, todo |-> todo,
                           keys |-> <<>>])

(* One iteration of the first loop: a key not met before is graded and     *)
(* keys[key] becomes the new outcome, or None when the submission at hand  *)
(* already carries it; an exception of grade_problem ends the call.        *)
ReevaluateGrade(p) ==
    LET proc == procs[p]
        submission == Head(proc.todo)
        key == submission.key
    IN  /\ proc.pc = "loop"
        /\ proc.todo # <<>>
        /\ IF key \in DOMAIN proc.keys
           THEN SetProc(p, [proc EXCEPT !.todo = Tail(proc.todo)])
           ELSE \E result \in grade_problem(problems, graders, proc.pid, key, None) :
                   IF result.status # "ok"
                   THEN SetProc(p, ReevaluateDone(proc, result.status, key))
                   ELSE LET change == IF result.correct # submission.correct
                                      THEN (IF result.correct THEN "True" ELSE "False")
                                      ELSE None
                        IN  SetProc(p, [proc EXCEPT !.todo = Tail(proc.todo),
                                                    !.keys = (key :> change) @@ proc.keys])

(* The second loop: the first key with a change calls update(..., multi=   *)
(* True) with a document that has no update operator, which MongoDB        *)
(* refuses; without a change the call returns.                             *)
ReevaluateUpdate(p) ==
    LET proc == procs[p]
    IN  /\ proc.pc = "loop"
        /\ proc.todo = <<>>
        /\ IF \E key \in DOMAIN proc.keys : proc.keys[key] # None
           THEN SetProc(p, ReevaluateDone(proc, "opfail", None))
           ELSE SetProc(p, ReevaluateDone(proc, "ok", None))

NextReevaluate ==
    \/ \E p \in Procs, pid \in {hash("A"), hash("B")} : ReevaluateBegin(p, pid)
    \/ \E p \in Procs : ReevaluateGrade(p)
    \/ \E p \in Procs : ReevaluateUpdate(p)
    \/ \E g \in GraderPaths, s \in GraderStates : SetGrader(g, s)

SpecReevaluate == InitReevaluate /\ [][NextReevaluate]_vars

----------------------------------------------------------------------------
(* A prerequisite cycle.  The store holds A and B, each with threshold 1   *)
(* and a weightmap that names only the other, and C, which is open to      *)
(* every team; the teams start without submissions and call submit_key.    *)

PACycle == Base("A", "c1", 1) @@ [weightmap |-> [n \in {"B"} |-> 1]]

PBCycle == Base("B", "c2", 1) @@ [weightmap |-> [n \in {"A"} |-> 1]]

PCOpen == Base("C", "c1", 0)

InitCycle ==
    /\ problems = SetToBag({insert_doc(PACycle), insert_doc(PBCycle),
                            insert_doc(PCOpen)})
    /\ submissions = EmptyBag
    /\ graders = [g \in GraderPaths |-> "k1"]
    /\ ret = Call("init", <<>>, "ok")
    /\ procs = [p \in Procs |-> IdleProc]

NextCycle ==
    \/ \E a \in SubmitInputs : SubmitKey(a[1], a[2], a[3], a[4])
    \/ \E g \in GraderPaths, s \in GraderStates : SetGrader(g, s)

SpecCycle == InitCycle /\ [][NextCycle]_vars

----------------------------------------------------------------------------
(* Vocabulary of the properties, stated from the stores alone.             *)

(* A submission document that still has its fields (invalidation leaves    *)
(* documents holding 'correct' only).                                      *)
FullSubs(S) == {d \in BagToSet(S) : {"tid", "pid", "key"} \subseteq DOMAIN d}

StoredTriple(S, tid, pid, key) ==
    \E d \in FullSubs(S) : d.tid = tid /\ d.pid = pid /\ d.key = key

HasCorrect(S, tid, pid) ==
    \E d \in FullSubs(S) : d.tid = tid /\ d.pid = pid /\ d.correct = TRUE

SolvedSet(S, tid) ==
    {d.pid : d \in {x \in FullSubs(S) : x.tid = tid /\ x.correct = TRUE}}

EnabledDocs(P) == {d \in BagToSet(P) : d.disabled = FALSE}

RECURSIVE SumOver(_, _)
SumOver(wm, Q) ==
    IF Q = {} THEN 0
    ELSE LET q == CHOOSE x \in Q : TRUE
         IN  (IF q \in DOMAIN wm THEN wm[q] ELSE 0) + SumOver(wm, Q \ {q})

(* The enabled problems whose threshold the team's solved set reaches.     *)
ExpectedUnlocked(P, S, tid) ==
    {d.pid : d \in {x \in EnabledDocs(P) :
                      SumOver(x.weightmap, SolvedSet(S, tid)) >= x.threshold}}

(* The errors the specification files under ConflictError at submit_key.   *)
ConflictErrors == {"locked", "solved", "duplicate"}

ValidSubmitInputs == {a \in SubmitInputs : SubmissionSchemaOk(a[1], a[2], a[3])}

ValidPayloads == {p \in Payloads : ProblemSchemaOk(p)}

Outcomes(a) ==
    submit_key(problems, submissions, graders, a[1], a[2], a[3], a[4])

----------------------------------------------------------------------------
(* C1: sequential submit_key calls never leave two stored submissions with *)
(* the same (tid, pid, key); a submit_key whose triple is already stored   *)
(* is rejected and stores nothing, whether the stored one is correct or    *)
(* not.                                                                    *)
C1_NoDuplicateTriple ==
    /\ \A d \in FullSubs(submissions) :
          /\ submissions[d] = 1
          /\ \A e \in FullSubs(submissions) :
                (e.tid = d.tid /\ e.pid = d.pid /\ e.key = d.key) => e = d
    /\ \A a \in SubmitInputs :
          StoredTriple(submissions, a[1], a[2], a[3]) =>
             \A out \in Outcomes(a) : out.status # "ok" /\ out.S = submissions

(* A duplicate of an incorrect stored submission has just been rejected.   *)
C1_Witness ==
    /\ ret.op = "submit_key"
    /\ ret.status = "duplicate"
    /\ \E d \in FullSubs(submissions) : d.correct = FALSE

----------------------------------------------------------------------------
(* C2: when submit_key calls with the same (tid, pid, key) run             *)
(* concurrently, at most one of them succeeds and at most one submission   *)
(* with that triple is stored.                                             *)
C2_ConcurrentDuplicate ==
    /\ \A d \in FullSubs(submissions) :
          /\ submissions[d] = 1
          /\ \A e \in FullSubs(submissions) :
                (e.tid = d.tid /\ e.pid = d.pid /\ e.key = d.key) => e = d
    /\ \A p, q \in Procs :
          (/\ p # q
           /\ procs[p].pc = "done" /\ procs[q].pc = "done"
           /\ procs[p].tid = procs[q].tid
           /\ procs[p].pid = procs[q].pid
           /\ procs[p].key = procs[q].key)
          => ~(procs[p].status = "ok" /\ procs[q].status = "ok")

----------------------------------------------------------------------------
(* C3: once a team has a correct submission for a stored problem, every    *)
(* submit_key of that team for that problem, with any valid key, ends in   *)
(* a conflict error and stores nothing.                                    *)
C3_SolvedAlwaysConflict ==
    \A a \in ValidSubmitInputs :
       (/\ HasCorrect(submissions, a[1], a[2])
        /\ \E d \in EnabledDocs(problems) : d.pid = a[2])
       => \A out \in Outcomes(a) :
             out.status \in ConflictErrors /\ out.S = submissions

----------------------------------------------------------------------------
(* Whatever submit_key does for a pid get_unlocked_pids(tid) does not      *)
(* hold, it stores nothing.                                                *)
C4_LockedRejected ==
    \A a \in SubmitInputs :
       LET unlocked == get_unlocked_pids(problems, submissions, a[1], None)
       IN  (~unlocked.ok \/ a[2] \notin Range(unlocked.val))
           => \A out \in Outcomes(a) : out.status # "ok" /\ out.S = submissions

(* A step that adds a submission adds it for a pid unlocked before it.     *)
C4_StoredWhileUnlocked ==
    submissions' # submissions =>
    \A d \in FullSubs(submissions') :
       CopiesIn(d, submissions') > CopiesIn(d, submissions)
       => LET unlocked == get_unlocked_pids(problems, submissions, d.tid, None)
          IN  unlocked.ok /\ d.pid \in Range(unlocked.val)

(* C4: a submit_key for a pid that get_unlocked_pids(tid) does not hold is *)
(* rejected and stores nothing; and every submission that enters the store *)
(* enters it in a state where its pid is unlocked for its team.            *)
C4_OnlyUnlockedSubmitted ==
    [](C4_LockedRejected) /\ [][C4_StoredWhileUnlocked]_vars

(* A submission to a locked, stored problem has just been rejected.        *)
C4_Witness ==
    /\ ret.op = "submit_key"
    /\ ret.status = "locked"
    /\ \E tid \in Tids, d \in EnabledDocs(problems) :
          LET unlocked == get_unlocked_pids(problems, submissions, tid, None)
          IN  unlocked.ok /\ d.pid \notin Range(unlocked.val)

----------------------------------------------------------------------------
(* C5: in every reachable state get_unlocked_pids(tid) returns exactly the *)
(* enabled problems whose threshold is reached by the weights of the       *)
(* distinct problems the team has solved.                                  *)
C5_UnlockedIsThresholdSet ==
    \A tid \in Tids :
       LET unlocked == get_unlocked_pids(problems, submissions, tid, None)
       IN  /\ unlocked.ok
           /\ Range(unlocked.val) = ExpectedUnlocked(problems, submissions, tid)

----------------------------------------------------------------------------
(* C6: a stored problem whose payload had no weightmap is unlocked for     *)
(* every team, whatever its threshold.                                     *)
C6_NoWeightmapUnlocked ==
    \A p \in ValidPayloads :
       ("weightmap" \notin DOMAIN p /\ "disabled" \notin DOMAIN p
          /\ insert_doc(p) \in BagToSet(problems))
       => \A tid \in Tids :
             LET unlocked == get_unlocked_pids(problems, submissions, tid, None)
             IN  unlocked.ok /\ hash(p.name) \in Range(unlocked.val)

----------------------------------------------------------------------------
(* C7: whenever get_unlocked_pids(tid, category) returns, an enabled       *)
(* problem is in the result exactly when the weights of all the problems   *)
(* the team has solved, in any category, reach its threshold.              *)
C7_CategoryIgnoredOnSolvedSide ==
    \A tid \in Tids, category \in Categories :
       LET unlocked == get_unlocked_pids(problems, submissions, tid, category)
       IN  unlocked.ok =>
              Range(unlocked.val) = ExpectedUnlocked(problems, submissions, tid)

----------------------------------------------------------------------------
(* No two stored problems share a name or a pid.                           *)
C8_Unique ==
    \A d \in BagToSet(problems) :
       /\ problems[d] = 1
       /\ \A e \in BagToSet(problems) :
             (e.name = d.name \/ e.pid = d.pid) => e = d

(* An insert_problem step whose name or pid is already stored is rejected. *)
C8_DuplicateInsertRejected ==
    \A p \in ValidPayloads :
       (/\ InsertProblem(p)
        /\ \E d \in BagToSet(problems) : d.name = p.name \/ d.pid = hash(p.name))
       => ret'.status # "ok" /\ problems' = problems

(* C8: no two stored problems share a name or a pid, and insert_problem of *)
(* a payload whose name or pid a stored problem (enabled or disabled) has  *)
(* is rejected and leaves the store unchanged.                             *)
C8_UniqueNameAndPid ==
    [](C8_Unique) /\ [][C8_DuplicateInsertRejected]_vars

----------------------------------------------------------------------------
(* The payload plus pid, the defaulted disabled and the rekeyed weightmap. *)
ExpectedStored(p) ==
    LET names == IF "weightmap" \in DOMAIN p THEN DOMAIN p.weightmap ELSE {}
    IN  [f \in DOMAIN p \cup {"pid", "disabled", "weightmap"} |->
           IF f = "pid" THEN hash(p.name)
           ELSE IF f = "disabled"
                THEN (IF "disabled" \in DOMAIN p THEN p.disabled ELSE FALSE)
           ELSE IF f = "weightmap"
                THEN [h \in {hash(n) : n \in names} |->
                        p.weightmap[CHOOSE n \in names : hash(n) = h]]
           ELSE p[f]]

(* C9: after a successful insert_problem(payload), get_problem(pid) with   *)
(* the returned pid returns the payload plus pid = hash(name), disabled    *)
(* (false when absent) and the weightmap rekeyed by hash.                  *)
C9_InsertThenGet ==
    [][\A p \in ValidPayloads :
          (InsertProblem(p) /\ ret'.status = "ok")
          => get_problem(problems', hash(p.name), None, FALSE) = {ExpectedStored(p)}
      ]_vars

----------------------------------------------------------------------------
(* An update_problem step on a stored pid succeeds and stores the merge.   *)
C10_UpdateStep ==
    \A pid \in Pids, u \in UpdateInputs :
       (UpdateProblem(pid, u) /\ \E d \in BagToSet(problems) : d.pid = pid)
       => /\ ret'.status = "ok"
          /\ \E d \in BagToSet(problems) :
                d.pid = pid /\ (u @@ d) \in BagToSet(problems')

(* A set_problem_disabled step on a stored pid leaves disabled = d.        *)
C10_DisableStep ==
    \A pid \in Pids, b \in BOOLEAN :
       (SetProblemDisabled(pid, b) /\ \E d \in BagToSet(problems) : d.pid = pid)
       => /\ ret'.status = "ok"
          /\ \A d \in BagToSet(problems') : d.pid = pid => d.disabled = b

(* C10: update_problem of a stored problem with schema-valid partial       *)
(* fields succeeds and stores the record with the fields overwritten;      *)
(* set_problem_disabled(pid, d) leaves the stored problem with             *)
(* disabled = d.                                                           *)
C10_UpdateSucceeds ==
    [][C10_UpdateStep /\ C10_DisableStep]_vars

----------------------------------------------------------------------------
(* The store invalidate(tid) is to leave: correct = false on the team's    *)
(* submissions, every other field and every other submission as before.    *)
ExpectedInvalidated(S, tid) ==
    LET inv(d) == IF "tid" \in DOMAIN d /\ d.tid = tid
                  THEN [d EXCEPT !.correct = FALSE] ELSE d
    IN  MapBag(inv, S)

(* C11: invalidate_submissions(tid=T) sets correct = false on every stored *)
(* submission of team T, changes no other field of them, leaves the other  *)
(* teams' submissions as they were and keeps the number of submissions.    *)
C11_InvalidateTeam ==
    [][\A tid \in Tids :
          InvalidateSubmissions(None, None, tid)
          => /\ submissions' = ExpectedInvalidated(submissions, tid)
             /\ BagCardinality(submissions') = BagCardinality(submissions)
      ]_vars

----------------------------------------------------------------------------
(* The outcome the current grader of a stored, enabled problem gives.      *)
Outcome(P, G, pid, key) ==
    {key = G[d.grader] : d \in {x \in EnabledDocs(P) : x.pid = pid}}

(* C12: after reevaluate_submissions_for_problem(P) completes, every       *)
(* stored submission for P has correct equal to the outcome the current    *)
(* grader gives for its key, whatever the flags were before; submissions   *)
(* for P whose flag already was that outcome are untouched.                *)
C12_ReevaluateSetsOutcome ==
    [][\A pid \in Pids :
          (ReevaluateSubmissions(pid) /\ ret'.status = "ok")
          => /\ \A d \in FullSubs(submissions') :
                   d.pid = pid => Outcome(problems, graders, pid, d.key) = {d.correct}
             /\ \A d \in FullSubs(submissions) :
                   (d.pid = pid /\ Outcome(problems, graders, pid, d.key) = {d.correct})
                   => CopiesIn(d, submissions') >= CopiesIn(d, submissions)
      ]_vars

----------------------------------------------------------------------------
(* C13: every submit_key that passes all gates stores exactly one more     *)
(* record, with the given tid, pid and key, the user's uid, the problem's  *)
(* category and correct = the grader's outcome, and returns that outcome,  *)
(* the problem's score as points and the grader's message.                 *)
C13_AcceptedStored ==
    \A a \in ValidSubmitInputs : \A out \in Outcomes(a) :
       out.status = "ok" =>
          \E d \in EnabledDocs(problems) :
             /\ d.pid = a[2]
             /\ graders[d.grader] # "missing"
             /\ a[4] \in Users
             /\ LET correct == (a[3] = graders[d.grader])
                IN  /\ out.S = submissions (+) SetToBag({
                               [uid |-> a[4], tid |-> a[1], pid |-> a[2],
                                ip |-> None, key |-> a[3],
                                category |-> d.category, correct |-> correct]})
                    /\ BagCardinality(out.S) = BagCardinality(submissions) + 1
                    /\ out.result.correct = correct
                    /\ out.result.points = d.score
                    /\ out.result.message = (IF correct THEN "Correct!" ELSE "Wrong")

(* A submit_key has just been accepted and its correct record is stored    *)
(* under the category of its problem.                                      *)
C13_Witness ==
    /\ ret.op = "submit_key"
    /\ ret.status = "ok"
    /\ \E s \in FullSubs(submissions), d \in EnabledDocs(problems) :
          s.pid = d.pid /\ s.category = d.category /\ s.correct = TRUE

----------------------------------------------------------------------------
(* Every failing outcome of submit_key and insert_problem leaves its store *)
(* as it was; with the grader file missing nothing is accepted, and a call *)
(* that reaches the grader ends in the grader-offline error.               *)
C14_FailuresStoreNothing ==
    /\ \A a \in SubmitInputs : \A out \in Outcomes(a) :
          out.status # "ok" => out.S = submissions
    /\ \A p \in Payloads :
          LET out == insert_problem(problems, p)
          IN  out.status # "ok" => out.P = problems
    /\ \A a \in ValidSubmitInputs : \A d \in EnabledDocs(problems) :
          (d.pid = a[2] /\ graders[d.grader] = "missing")
          => \A out \in Outcomes(a) :
                /\ out.status # "ok"
                /\ out.S = submissions
                /\ (/\ get_unlocked_pids(problems, submissions, a[1], None).ok
                    /\ a[2] \in ExpectedUnlocked(problems, submissions, a[1])
                    /\ ~HasCorrect(submissions, a[1], a[2])
                    /\ a[4] \in Users)
                   => out.status = "offline"

(* A failed submit_key or insert_problem step changes neither store.       *)
C14_FailedStep ==
    (ret'.op \in {"submit_key", "insert_problem"} /\ ret'.status # "ok")
    => problems' = problems /\ submissions' = submissions

(* C14: a submit_key or insert_problem call that ends in an error leaves   *)
(* the problem store and the submission store exactly as they were; a      *)
(* grader that cannot be loaded gives the grader-offline error and never a *)
(* stored submission with correct = false.                                 *)
C14_ErrorsLeaveStores ==
    [](C14_FailuresStoreNothing) /\ [][C14_FailedStep]_vars

(* A submit_key has just ended in the grader-offline error.                *)
C14_Witness ==
    /\ ret.op = "submit_key"
    /\ ret.status = "offline"
    /\ \E d \in EnabledDocs(problems) : graders[d.grader] = "missing"

----------------------------------------------------------------------------
(* C15: the duplicate gate comes before grading: a submit_key that passes  *)
(* the unlock gate, the solved gate and the user lookup and repeats a      *)
(* (key, pid) of the team is rejected as a duplicate, also when the grader *)
(* is unavailable.                                                         *)
C15_DuplicateBeforeGrade ==
    \A a \in ValidSubmitInputs :
       (/\ StoredTriple(submissions, a[1], a[2], a[3])
        /\ get_unlocked_pids(problems, submissions, a[1], None).ok
        /\ a[2] \in ExpectedUnlocked(problems, submissions, a[1])
        /\ ~HasCorrect(submissions, a[1], a[2])
        /\ a[4] \in Users)
       => \A out \in Outcomes(a) : out.status = "duplicate"

----------------------------------------------------------------------------
(* C16: when the grader fails for one key during                           *)
(* reevaluate_submissions_for_problem(P), the submissions of every other   *)
(* key of P that the call graded with a changed outcome carry the new      *)
(* outcome when the call has ended.                                        *)
C16_OtherKeysUpdated ==
    \A p \in Procs :
       (procs[p].pc = "done" /\ procs[p].status = "offline")
       => \A d \in FullSubs(submissions) :
             (/\ d.pid = procs[p].pid
              /\ d.key # procs[p].failed
              /\ d.key \in DOMAIN procs[p].keys
              /\ procs[p].keys[d.key] # None)
             => d.correct = (procs[p].keys[d.key] = "True")

----------------------------------------------------------------------------
(* Two stored problems with positive thresholds, each giving weight only   *)
(* to the other.                                                           *)
IsCycle(a, b) ==
    /\ a.pid # b.pid
    /\ a.threshold > 0 /\ b.threshold > 0
    /\ DOMAIN a.weightmap = {b.pid} /\ DOMAIN b.weightmap = {a.pid}

(* C17: a prerequisite cycle never unlocks itself: whatever the teams      *)
(* submit, starting without submissions, neither problem of the cycle is   *)
(* in get_unlocked_pids of any team and no submission for either is        *)
(* stored.                                                                 *)
C17_CycleStaysLocked ==
    \A a, b \in EnabledDocs(problems) :
       IsCycle(a, b) =>
          /\ \A tid \in Tids :
                LET unlocked == get_unlocked_pids(problems, submissions, tid, None)
                IN  /\ unlocked.ok
                    /\ a.pid \notin Range(unlocked.val)
                    /\ b.pid \notin Range(unlocked.val)
          /\ \A d \in FullSubs(submissions) : d.pid \notin {a.pid, b.pid}

(* A team that has solved the open problem has just been refused at a      *)
(* problem of the cycle.                                                   *)
C17_Witness ==
    /\ ret.op = "submit_key"
    /\ ret.status = "locked"
    /\ \E a, b \in EnabledDocs(problems) : IsCycle(a, b)
    /\ \E tid \in Tids : HasCorrect(submissions, tid, hash("C"))

----------------------------------------------------------------------------
(* C18: each team has at most one stored submission with correct = true    *)
(* per pid, so get_solved_pids(tid) holds no pid twice and a weight sum    *)
(* counts each solved prerequisite once.                                   *)
C18_OneCorrectPerProblem ==
    \A tid \in Tids :
       /\ \A pid \in Pids :
             BagCardinality(Find(submissions,
                 [tid |-> tid, pid |-> pid, correct |-> TRUE])) <= 1
       /\ LET pids == get_solved_pids(submissions, tid, None)
          IN  \A i, j \in 1..Len(pids) : pids[i] = pids[j] => i = j
       /\ LET solved == get_solved_problems(problems, submissions, tid, None)
          IN  solved.ok =>
                 \A d \in EnabledDocs(problems) :
                    weightsum(d, solved.val)
                      = SumOver(d.weightmap, SolvedSet(submissions, tid))

(* A team with a wrong and a correct submission for one problem has just   *)
(* been refused a further one.                                             *)
C18_Witness ==
    /\ ret.op = "submit_key"
    /\ ret.status = "solved"
    /\ \E d, e \in FullSubs(submissions) :
          d.tid = e.tid /\ d.pid = e.pid /\ d.correct = TRUE /\ e.correct = FALSE

----------------------------------------------------------------------------
(* C19: in every reachable state get_unlocked_pids(tid) returns for every  *)
(* team, and a team's submit_key for a problem its solved set unlocks and  *)
(* it has not solved does not fail for a problem that cannot be found.     *)
C19_UnlockedNeverFails ==
    /\ \A tid \in Tids :
          get_unlocked_pids(problems, submissions, tid, None).ok
    /\ \A a \in ValidSubmitInputs :
          (/\ a[2] \in ExpectedUnlocked(problems, submissions, a[1])
           /\ ~HasCorrect(submissions, a[1], a[2])
           /\ a[4] \in Users)
          => \A out \in Outcomes(a) : out.status # "notfound"

----------------------------------------------------------------------------
(* A document without its correct flag.                                    *)
WithoutCorrect(d) == [f \in DOMAIN d \ {"correct"} |-> d[f]]

====
